---- MODULE Spec2Model ----
(***************************************************************************)
(* Model of log4rs-mqtt (src/src/lib.rs): the MqttAppender, its builder,   *)
(* the configuration deserializer and the in-memory writer StrBuilder.     *)
(*                                                                         *)
(* External collaborators are modelled by their observable behaviour:      *)
(*  - the encoder (Box<dyn Encode>) is any sequence of write / flush calls *)
(*    on the StrBuilder followed by Ok or Err;                             *)
(*  - std::io::BufWriter keeps at most BufCap bytes in its buffer and      *)
(*    moves bytes to the inner Vec when a write does not fit;              *)
(*  - the paho AsyncClient records the operations submitted to it          *)
(*    (create, connect, publish) and answers each with success or failure. *)
(***************************************************************************)
EXTENDS Integers, Sequences, FiniteSets, TLC

\* ------------------------------------------------------------------ bounds
\* Capacity of the BufWriter created by BufWriter::new (lib.rs:81); the
\* standard library default is 8192 bytes, scaled down here.
BufCap == 2
\* Longest slice an encoder passes to one write call.
MaxChunk == 2
\* Longest rendered text of one record, in bytes.
MaxRender == 3
\* Longest rendered text of one record where calls overlap.
MaxPlainRender == 2
\* Most write / flush calls an encoder makes for one record.
MaxOps == 3
\* Number of append calls (they may overlap in time, one per thread).
MaxCalls == 2

\* ------------------------------------------------------------- value sets
\* Bytes an encoder can emit: a letter, the newline and a byte that is not
\* valid UTF-8.
Bytes == {"a", "\n", "xFF"}
\* The same, for encoders that emit valid UTF-8 only.
PlainBytes == {"a", "\n"}
\* Slices an encoder passes to one write call.
Chunks(B) == UNION {[1..n -> B] : n \in 1..MaxChunk}
\* Values handed to the setters / present in a configuration file.
TopicValues == {"logs", "log_messages"}
QosValues == {-1, 0, 1, 2, 3}
EncoderValues == {"json"}
ServerValues == {"mqtt://mosquitto.local:1883"}
ClientIdValues == {"app_logger"}
\* Encoder kinds present in the log4rs deserializer registry; any other
\* kind in a configuration fails to deserialize.
RegisteredEncoders == {"pattern", "json"}
EncoderKinds == {"json", "bogus"}

Calls == 1..MaxCalls

\* Option<T>
None == <<>>
Some(v) == <<v>>
Option(S) == {None} \cup {Some(v) : v \in S}
unwrap_or(o, d) == IF o = None THEN d ELSE o[1]

VARIABLES
    stage,      \* "config" | "built" | "fatal" | "deser_err"
    entry,      \* history: "none" | "builder" | "yaml", how build was reached
    builder,    \* MqttAppenderBuilder
    given,      \* history: the value last passed to each setter, or the
                \* MqttAppenderConfig handed to the deserializer
    buildCalls, \* history: number of times build() ran
    appender,   \* Option<MqttAppender>
    client,     \* Option<AsyncClient>: the options the client was created with
    wire,       \* operations submitted to the MQTT client library, in order
    th          \* per append call: its position and its local variables

vars == <<stage, entry, builder, given, buildCalls, appender, client, wire, th>>

\* ---------------------------------------------------------------- builder
\* MqttAppender::builder()
NewBuilder ==
    [topic |-> None, qos |-> None, encoder |-> None,
     mqtt_server |-> None, mqtt_client_id |-> None]

encoder(b, e) == [b EXCEPT !.encoder = Some(e)]
topic(b, t) == [b EXCEPT !.topic = Some(t)]
qos(b, q) == [b EXCEPT !.qos = Some(q)]
mqtt_server(b, h) == [b EXCEPT !.mqtt_server = Some(h)]
mqtt_client_id(b, c) == [b EXCEPT !.mqtt_client_id = Some(c)]

\* One operation on the client library, as the library sees it: the handle
\* it was issued on, its answer, and for a publish the call that issued it
\* and the message.
Event(op, handle, ok, call, msg) ==
    [op |-> op, handle |-> handle, ok |-> ok, call |-> call, msg |-> msg]

\* Mutant of build: the result of the initial connect is not checked.
build_ignoreConnect(b, createOk, connectOk) ==
    LET copts == [server_uri |-> unwrap_or(b.mqtt_server, "mqtt://localhost:1883"),
                  client_id |-> b.mqtt_client_id]
        create == Event("create", 1, createOk, 0, None)
        connect == Event("connect", 1, connectOk, 0, None)
    IN  IF ~createOk
        THEN [outcome |-> "fatal", ops |-> <<create>>, client |-> None, appender |-> None]
        ELSE [outcome |-> "built", ops |-> <<create, connect>>,
              client |-> Some(copts),
              appender |-> Some([topic |-> unwrap_or(b.topic, "logging"),
                                 qos |-> unwrap_or(b.qos, 0),
                                 encoder |-> unwrap_or(b.encoder, "pattern"),
                                 mqtt |-> 1])]

\* Mutant of build: the default QoS is 1.
build_defaultQos1(b, createOk, connectOk) ==
    LET copts == [server_uri |-> unwrap_or(b.mqtt_server, "mqtt://localhost:1883"),
                  client_id |-> b.mqtt_client_id]
        create == Event("create", 1, createOk, 0, None)
        connect == Event("connect", 1, connectOk, 0, None)
    IN  IF ~createOk
        THEN [outcome |-> "fatal", ops |-> <<create>>, client |-> None, appender |-> None]
        ELSE IF ~connectOk
        THEN [outcome |-> "fatal", ops |-> <<create, connect>>,
              client |-> Some(copts), appender |-> None]
        ELSE [outcome |-> "built", ops |-> <<create, connect>>,
              client |-> Some(copts),
              appender |-> Some([topic |-> unwrap_or(b.topic, "logging"),
                                 qos |-> unwrap_or(b.qos, 1),
                                 encoder |-> unwrap_or(b.encoder, "pattern"),
                                 mqtt |-> 1])]

\* MqttAppenderBuilder::build.  createOk / connectOk are the answers of
\* AsyncClient::new and of the blocking connect.  The result carries the
\* outcome ("built", or "fatal" for the expect / unwrap panics), the client
\* operations issued, the client and the appender, if any.
build(b, createOk, connectOk) ==
    LET copts == [server_uri |-> unwrap_or(b.mqtt_server, "mqtt://localhost:1883"),
                  client_id |-> b.mqtt_client_id]
        create == Event("create", 1, createOk, 0, None)
        connect == Event("connect", 1, connectOk, 0, None)
    IN  IF ~createOk
        THEN [outcome |-> "fatal", ops |-> <<create>>, client |-> None, appender |-> None]
        ELSE IF ~connectOk
        THEN [outcome |-> "fatal", ops |-> <<create, connect>>,
              client |-> Some(copts), appender |-> None]
        ELSE [outcome |-> "built", ops |-> <<create, connect>>,
              client |-> Some(copts),
              appender |-> Some([topic |-> unwrap_or(b.topic, "logging"),
                                 qos |-> unwrap_or(b.qos, 0),
                                 encoder |-> unwrap_or(b.encoder, "pattern"),
                                 mqtt |-> 1])]

\* Deserializers::deserialize(&encoder.kind, encoder.config): Ok(encoder) for
\* a registered kind, Err otherwise.
deserialize_encoder(kind) == IF kind \in RegisteredEncoders THEN Some(kind) ELSE None

\* Mutant of deserialize: an encoder that fails to deserialize is replaced
\* by the default one.
deserialize_lenient(config) ==
    LET a0 == NewBuilder
        a1 == IF config.topic # None THEN topic(a0, config.topic[1]) ELSE a0
        a2 == IF config.qos # None THEN qos(a1, config.qos[1]) ELSE a1
        e == IF config.encoder # None THEN deserialize_encoder(config.encoder[1]) ELSE None
        a3 == IF config.encoder # None /\ e # None THEN encoder(a2, e[1]) ELSE a2
        a4 == IF config.mqtt_server # None THEN mqtt_server(a3, config.mqtt_server[1]) ELSE a3
        a5 == IF config.mqtt_client_id # None
              THEN mqtt_client_id(a4, config.mqtt_client_id[1]) ELSE a4
    IN  Some(a5)

\* MqttAppenderDeserializer::deserialize up to the build call: the builder
\* after the setter calls, or None where `?` returns the encoder's error.
deserialize(config) ==
    LET a0 == NewBuilder
        a1 == IF config.topic # None THEN topic(a0, config.topic[1]) ELSE a0
        a2 == IF config.qos # None THEN qos(a1, config.qos[1]) ELSE a1
        e == IF config.encoder # None THEN deserialize_encoder(config.encoder[1]) ELSE None
        a3 == IF config.encoder # None /\ e # None THEN encoder(a2, e[1]) ELSE a2
        a4 == IF config.mqtt_server # None THEN mqtt_server(a3, config.mqtt_server[1]) ELSE a3
        a5 == IF config.mqtt_client_id # None
              THEN mqtt_client_id(a4, config.mqtt_client_id[1]) ELSE a4
    IN  IF config.encoder # None /\ e = None THEN None ELSE Some(a5)

\* ---------------------------------------------------------------- writer
\* StrBuilder { buf: BufWriter::new(Vec::new()) }
NewStrBuilder == [buf |-> <<>>, inner |-> <<>>]

\* StrBuilder::write -> BufWriter::write on a Vec<u8>: a slice that does not
\* fit in the spare capacity first moves the buffered bytes to the inner
\* Vec; a slice at least as long as the capacity goes to the inner Vec
\* directly; anything else is kept in the buffer.
write(w, data) ==
    LET f == IF Len(w.buf) + Len(data) > BufCap
             THEN [buf |-> <<>>, inner |-> w.inner \o w.buf]
             ELSE w
    IN  IF Len(data) >= BufCap
        THEN [f EXCEPT !.inner = @ \o data]
        ELSE [f EXCEPT !.buf = @ \o data]

\* StrBuilder::flush -> BufWriter::flush: the buffered bytes move to the Vec.
flush(w) == [buf |-> <<>>, inner |-> w.inner \o w.buf]

\* String::from_utf8_lossy: an invalid byte becomes U+FFFD.
from_utf8_lossy(bs) ==
    [i \in 1..Len(bs) |-> IF bs[i] = "xFF" THEN "uFFFD" ELSE bs[i]]

\* Mutant of strip_suffix: a text without the suffix is returned unchanged.
strip_suffix_lenient(s) ==
    IF Len(s) > 0 /\ s[Len(s)] = "\n" THEN Some(SubSeq(s, 1, Len(s) - 1)) ELSE Some(s)

\* str::strip_suffix("\n")
strip_suffix(s) ==
    IF Len(s) > 0 /\ s[Len(s)] = "\n" THEN Some(SubSeq(s, 1, Len(s) - 1)) ELSE None

\* What an encoder does to the writer: a sequence of write and flush calls.
Ops(B) == [kind : {"write"}, data : Chunks(B)] \cup {[kind |-> "flush", data |-> <<>>]}

\* One call of the encoder on the writer; text collects the bytes written.
step(st, op) ==
    IF op.kind = "flush"
    THEN [st EXCEPT !.w = flush(@)]
    ELSE [text |-> st.text \o op.data, w |-> write(st.w, op.data)]

\* The runs of at most n calls from ops that start with a run of S.
RECURSIVE encode(_, _, _)
encode(S, n, ops) ==
    IF n = 0
    THEN S
    ELSE encode(S \cup {r \in {step(st, op) : st \in S, op \in ops} :
                            Len(r.text) <= MaxRender},
                n - 1, ops)

\* Every encoder run within the bounds: the bytes written (text) and the
\* writer it leaves behind (w).
EncoderRuns == encode({[text |-> <<>>, w |-> NewStrBuilder]}, MaxOps, Ops(Bytes))
\* The runs of the encoders that emit valid UTF-8 only, on short records.
PlainRuns ==
    {r \in encode({[text |-> <<>>, w |-> NewStrBuilder]}, MaxOps, Ops(PlainBytes)) :
        Len(r.text) <= MaxPlainRender}

\* Lines 83-88 of append: the payload is read from the BufWriter's buffer
\* (BufWriter::buffer()); None where the unwrap panics.
message(a, w) ==
    LET payload == from_utf8_lossy(w.buf)
        stripped == strip_suffix(payload)
    IN  IF stripped = None
        THEN None
        ELSE Some([topic |-> a.topic, qos |-> a.qos, payload |-> stripped[1]])

\* ------------------------------------------------------------------- Init
\* pc is the call's position, msg the message built at line 88 and not yet
\* published; rendered is history: the bytes of the record as the encoder
\* rendered it, once it has returned Ok.
IdleCall == [pc |-> "idle", rendered |-> None, msg |-> None]

Init ==
    /\ stage = "config"
    /\ entry = "none"
    /\ builder = NewBuilder
    /\ given = NewBuilder
    /\ buildCalls = 0
    /\ appender = None
    /\ client = None
    /\ wire = <<>>
    /\ th = [c \in Calls |-> IdleCall]

\* ---------------------------------------------------------------- actions
Unbuilt == stage = "config" /\ entry \in {"none", "builder"}

SetTopic(v) ==
    /\ Unbuilt
    /\ builder' = topic(builder, v)
    /\ given' = [given EXCEPT !.topic = Some(v)]
    /\ entry' = "builder"
    /\ UNCHANGED <<stage, buildCalls, appender, client, wire, th>>

SetQos(v) ==
    /\ Unbuilt
    /\ builder' = qos(builder, v)
    /\ given' = [given EXCEPT !.qos = Some(v)]
    /\ entry' = "builder"
    /\ UNCHANGED <<stage, buildCalls, appender, client, wire, th>>

SetEncoder(v) ==
    /\ Unbuilt
    /\ builder' = encoder(builder, v)
    /\ given' = [given EXCEPT !.encoder = Some(v)]
    /\ entry' = "builder"
    /\ UNCHANGED <<stage, buildCalls, appender, client, wire, th>>

SetMqttServer(v) ==
    /\ Unbuilt
    /\ builder' = mqtt_server(builder, v)
    /\ given' = [given EXCEPT !.mqtt_server = Some(v)]
    /\ entry' = "builder"
    /\ UNCHANGED <<stage, buildCalls, appender, client, wire, th>>

SetMqttClientId(v) ==
    /\ Unbuilt
    /\ builder' = mqtt_client_id(builder, v)
    /\ given' = [given EXCEPT !.mqtt_client_id = Some(v)]
    /\ entry' = "builder"
    /\ UNCHANGED <<stage, buildCalls, appender, client, wire, th>>

\* builder.build(), called by the program.
Build(createOk, connectOk) ==
    /\ Unbuilt
    /\ LET r == build(builder, createOk, connectOk)
       IN  /\ stage' = r.outcome
           /\ appender' = r.appender
           /\ client' = r.client
           /\ wire' = wire \o r.ops
    /\ buildCalls' = buildCalls + 1
    /\ entry' = "builder"
    /\ UNCHANGED <<builder, given, th>>

\* MqttAppenderDeserializer::deserialize(config, deserializers), called by
\* log4rs while it loads a configuration file.
Deserialize(config, createOk, connectOk) ==
    /\ stage = "config"
    /\ entry = "none"
    /\ entry' = "yaml"
    /\ given' = config
    /\ LET a == deserialize(config)
       IN  IF a = None
           THEN /\ stage' = "deser_err"
                /\ UNCHANGED <<builder, buildCalls, appender, client, wire>>
           ELSE LET r == build(a[1], createOk, connectOk)
                IN  /\ builder' = a[1]
                    /\ stage' = r.outcome
                    /\ appender' = r.appender
                    /\ client' = r.client
                    /\ wire' = wire \o r.ops
                    /\ buildCalls' = buildCalls + 1
    /\ UNCHANGED th

\* Mutant of AppendEncode: the encoder's error is ignored.
AppendEncode_ignoreError(c, Runs) ==
    /\ stage = "built"
    /\ th[c].pc = "idle"
    /\ c > 1 => th[c - 1].pc # "idle"
    /\ \E run \in Runs, encOk \in BOOLEAN :
          LET m == message(appender[1], run.w)
          IN  th' = [th EXCEPT ![c] =
                       [pc |-> IF m = None THEN "panic" ELSE "message",
                        rendered |-> IF encOk THEN Some(run.text) ELSE None,
                        msg |-> m]]
    /\ UNCHANGED <<stage, entry, builder, given, buildCalls, appender, client, wire>>

\* Append::append, lines 81-88, which touch only locals of the call: a
\* fresh writer, a run of the encoder on it (run.text written, the writer
\* left as run.w), the encoder's result encOk, and the message or the
\* unwrap's panic.  Runs is the set of runs the encoder can make.
AppendEncode(c, Runs) ==
    /\ stage = "built"
    /\ th[c].pc = "idle"
    /\ c > 1 => th[c - 1].pc # "idle"
    /\ \E run \in Runs, encOk \in BOOLEAN :
          LET m == message(appender[1], run.w)
          IN  th' = [th EXCEPT ![c] =
                       [pc |-> IF ~encOk THEN "err_encode"
                               ELSE IF m = None THEN "panic" ELSE "message",
                        rendered |-> IF encOk THEN Some(run.text) ELSE None,
                        msg |-> IF encOk THEN m ELSE None]]
    /\ UNCHANGED <<stage, entry, builder, given, buildCalls, appender, client, wire>>

\* Mutant of AppendPublish: a failed publish is submitted a second time.
AppendPublish_retry(c, ok) ==
    /\ th[c].pc = "message"
    /\ LET e == Event("publish", appender[1].mqtt, ok, c, th[c].msg)
       IN  wire' = IF ok THEN Append(wire, e) ELSE wire \o <<e, e>>
    /\ th' = [th EXCEPT ![c].pc = IF ok THEN "ok" ELSE "err_publish",
                        ![c].msg = None]
    /\ UNCHANGED <<stage, entry, builder, given, buildCalls, appender, client>>

\* Lines 89-90: the blocking publish, answered by the client with ok; Ok(())
\* or the client's error is returned.
AppendPublish(c, ok) ==
    /\ th[c].pc = "message"
    /\ wire' = Append(wire, Event("publish", appender[1].mqtt, ok, c, th[c].msg))
    /\ th' = [th EXCEPT ![c].pc = IF ok THEN "ok" ELSE "err_publish",
                        ![c].msg = None]
    /\ UNCHANGED <<stage, entry, builder, given, buildCalls, appender, client>>

\* Append::flush, line 94.
Flush ==
    /\ stage = "built"
    /\ UNCHANGED vars

\* --------------------------------------------------------- specifications
\* Configurations loaded in the append runs: an empty one and
\* topic = "logs", qos = 1.
AppendConfigs ==
    {NewBuilder, [NewBuilder EXCEPT !.topic = Some("logs"), !.qos = Some(1)]}

\* Append runs: a publisher loaded from a configuration, then MaxCalls
\* append calls that may overlap, with encoders that emit valid UTF-8 and
\* records of at most MaxPlainRender bytes.
Next ==
    \/ \E config \in AppendConfigs, createOk \in BOOLEAN, connectOk \in BOOLEAN :
          Deserialize(config, createOk, connectOk)
    \/ \E c \in Calls : AppendEncode(c, PlainRuns)
    \/ \E c \in Calls, ok \in BOOLEAN : AppendPublish(c, ok)
    \/ Flush

Spec == Init /\ [][Next]_vars

\* Every MqttAppenderConfig over the value sets.
Configs ==
    [topic : Option(TopicValues), qos : Option(QosValues),
     encoder : Option(EncoderKinds), mqtt_server : Option(ServerValues),
     mqtt_client_id : Option(ClientIdValues)]

\* Configuration runs: every way of building a publisher, then one append
\* with any encoder.
NextConfig ==
    \/ \E v \in TopicValues : SetTopic(v)
    \/ \E v \in QosValues : SetQos(v)
    \/ \E v \in EncoderValues : SetEncoder(v)
    \/ \E v \in ServerValues : SetMqttServer(v)
    \/ \E v \in ClientIdValues : SetMqttClientId(v)
    \/ \E createOk \in BOOLEAN, connectOk \in BOOLEAN : Build(createOk, connectOk)
    \/ \E config \in Configs, createOk \in BOOLEAN, connectOk \in BOOLEAN :
          Deserialize(config, createOk, connectOk)
    \/ AppendEncode(1, EncoderRuns)
    \/ \E ok \in BOOLEAN : AppendPublish(1, ok)
    \/ Flush

SpecConfig == Init /\ [][NextConfig]_vars

\* ----------------------------------------------------------------- claims
Publishes == {i \in DOMAIN wire : wire[i].op = "publish"}
PublishesOf(c) == {i \in Publishes : wire[i].call = c}
EndsInNewline(s) == Len(s) > 0 /\ s[Len(s)] = "\n"
\* s without its last character
Trimmed(s) == SubSeq(s, 1, Len(s) - 1)
IsSuffix(s, t) == Len(s) <= Len(t) /\ SubSeq(t, Len(t) - Len(s) + 1, Len(t)) = s
\* The calls whose encoder returned Ok, and the text it rendered.
Rendered == {c \in Calls : th[c].rendered # None}
Text(c) == from_utf8_lossy(th[c].rendered[1])

\* C1: whenever the rendered text of a record ends in a newline, whatever
\* its length, append builds and publishes a message whose payload is the
\* rendered text without that one newline (it does not panic, and nothing
\* else is dropped).
C1_PayloadIsTrimmedRender ==
    \A c \in Rendered :
        EndsInNewline(Text(c)) =>
            /\ th[c].pc # "panic"
            /\ th[c].pc = "message" => th[c].msg[1].payload = Trimmed(Text(c))
            /\ \A i \in PublishesOf(c) : wire[i].msg[1].payload = Trimmed(Text(c))

\* C2: once no call is waiting to publish, the number of publish
\* submissions equals the number of append calls whose rendering succeeded
\* and ended in a newline, and every submitted message carries the topic and
\* QoS of the publisher.
C2_OnePublishPerRecord ==
    (\A c \in Calls : th[c].pc # "message") =>
        /\ Cardinality(Publishes) =
              Cardinality({c \in Rendered : EndsInNewline(Text(c))})
        /\ \A i \in Publishes :
              /\ wire[i].msg[1].topic = appender[1].topic
              /\ wire[i].msg[1].qos = appender[1].qos

\* C3: a built publisher has, for every field, the value last given to the
\* setter (or present in the configuration), and the default where none was
\* given: topic "logging", QoS 0, the pattern encoder, and the client is
\* created for "mqtt://localhost:1883".
C3_BuildDefaults ==
    stage = "built" =>
        /\ appender[1].topic = IF given.topic = None THEN "logging" ELSE given.topic[1]
        /\ appender[1].qos = IF given.qos = None THEN 0 ELSE given.qos[1]
        /\ appender[1].encoder =
              IF given.encoder = None THEN "pattern" ELSE given.encoder[1]
        /\ client[1].server_uri =
              IF given.mqtt_server = None THEN "mqtt://localhost:1883"
              ELSE given.mqtt_server[1]
        /\ client[1].client_id = given.mqtt_client_id

C3_Witness ==
    /\ stage = "built"
    /\ entry = "builder"
    /\ given.topic = None
    /\ given.qos = Some(2)
    /\ given.encoder = None
    /\ given.mqtt_server = Some("mqtt://mosquitto.local:1883")
    /\ appender[1].topic = "logging"

\* C4: a call whose publish failed has returned an error after exactly one
\* submission; no call submits more than once, nothing of a returned call is
\* kept, and every submitted payload comes from the record of the call that
\* submitted it.
C4_NoRetryNoBuffering ==
    /\ \A c \in Calls :
          /\ Cardinality(PublishesOf(c)) <= 1
          /\ th[c].pc = "err_publish" =>
                /\ \E i \in PublishesOf(c) : ~wire[i].ok
                /\ th[c].msg = None
          /\ th[c].pc = "ok" => th[c].msg = None
    /\ \A i \in Publishes :
          /\ ~wire[i].ok => th[wire[i].call].pc = "err_publish"
          /\ IsSuffix(Append(wire[i].msg[1].payload, "\n"), Text(wire[i].call))

C4_Witness ==
    /\ th[1].pc = "err_publish"
    /\ th[2].pc = "ok"
    /\ \E i \in PublishesOf(1), j \in PublishesOf(2) :
          /\ i < j
          /\ wire[i].msg[1].payload = <<"a">>
          /\ wire[j].msg[1].payload = <<>>

\* C5: a call whose encoder failed has returned the error: it did not
\* panic, built no message and submitted nothing; and no step of any call
\* changes the publisher or its client.
C5_EncoderFailure ==
    /\ [](\A c \in Calls :
            (th[c].pc # "idle" /\ th[c].rendered = None) =>
                /\ th[c].pc = "err_encode"
                /\ th[c].msg = None
                /\ PublishesOf(c) = {})
    /\ [][stage = "built" => (stage' = stage /\ appender' = appender /\ client' = client)]_vars

C5_Witness ==
    /\ th[1].pc = "err_encode"
    /\ th[2].pc = "ok"
    /\ Cardinality(Publishes) = 1

\* C6: a call whose rendered text does not end in a newline (the empty text
\* included) has panicked, without building or submitting a message.
C6_MissingNewlinePanics ==
    \A c \in Rendered :
        ~EndsInNewline(Text(c)) =>
            /\ th[c].pc = "panic"
            /\ th[c].msg = None
            /\ PublishesOf(c) = {}

C6_Witness ==
    /\ th[1].pc = "panic"
    /\ th[1].rendered = Some(<<"a", "\n", "xFF">>)
    /\ Publishes = {}

\* C7: a publisher exists only after a successful client creation followed
\* by a successful connect; a failure of either is fatal and leaves no
\* publisher and no publish; a built publisher issues nothing but publishes,
\* all on the client build() created.
C7_FailFast ==
    /\ appender # None <=> stage = "built"
    /\ stage = "built" =>
          /\ Len(wire) >= 2
          /\ wire[1] = Event("create", 1, TRUE, 0, None)
          /\ wire[2] = Event("connect", 1, TRUE, 0, None)
          /\ appender[1].mqtt = wire[1].handle
          /\ \A i \in 3..Len(wire) :
                wire[i].op = "publish" /\ wire[i].handle = appender[1].mqtt
    /\ stage = "fatal" =>
          \/ wire = <<Event("create", 1, FALSE, 0, None)>>
          \/ wire = <<Event("create", 1, TRUE, 0, None), Event("connect", 1, FALSE, 0, None)>>
    /\ stage \in {"config", "deser_err"} => wire = <<>>

C7_Witness ==
    /\ stage = "built"
    /\ entry = "builder"
    /\ Len(wire) = 3
    /\ wire[3].op = "publish"
    /\ wire[3].ok

\* C8: the QoS stored in a publisher, and so the QoS of every message it
\* submits, is 0, 1 or 2.
C8_QosValid ==
    /\ appender # None => appender[1].qos \in {0, 1, 2}
    /\ \A i \in Publishes : wire[i].msg[1].qos \in {0, 1, 2}

\* C9: the deserializer returns an error exactly when the configuration
\* names an encoder that cannot be deserialized, and then no client was
\* created, no connect attempted and build() not called; otherwise the
\* builder received exactly the fields of the configuration and build() ran
\* once.
C9_DeserializeEncoderError ==
    entry = "yaml" =>
        IF given.encoder # None /\ given.encoder[1] \notin RegisteredEncoders
        THEN /\ stage = "deser_err"
             /\ wire = <<>>
             /\ client = None
             /\ appender = None
             /\ buildCalls = 0
        ELSE /\ stage \in {"built", "fatal"}
             /\ buildCalls = 1
             /\ builder = given

C9_Witness ==
    /\ stage = "deser_err"
    /\ given.topic = Some("logs")
    /\ given.qos = Some(1)

\* C10: under every interleaving of the calls, the multiset of the payloads
\* published successfully equals the multiset of the trimmed rendered texts
\* of the calls that returned Ok.
C10_PayloadsMatchRecords ==
    LET Sent == {i \in Publishes : wire[i].ok}
        Done == {c \in Calls : th[c].pc = "ok"}
        P == {wire[i].msg[1].payload : i \in Sent} \cup {Trimmed(Text(c)) : c \in Done}
    IN  \A p \in P :
            Cardinality({i \in Sent : wire[i].msg[1].payload = p}) =
            Cardinality({c \in Done : Trimmed(Text(c)) = p})
====
